---- MODULE Spec2Model ----
(***************************************************************************)
(* A model of gestrich/claude-tools:                                       *)
(*   - the phase runner of phased-implementation.py (main, its loop and    *)
(*     the calls it makes to the external assistant), and                  *)
(*   - the voice watcher (FileWatcher, ClaudeParser).                      *)
(* Python values are modelled as follows: a list is a sequence, a dict is  *)
(* a set of <<key, value>> pairs, a str is a sequence of characters, and a *)
(* value that may be None is a sequence of at most one value (<<>> is      *)
(* None).                                                                  *)
(***************************************************************************)
EXTENDS Integers, Sequences, FiniteSets, TLC

(***************************************************************************)
(* Bounds of the model.                                                    *)
(***************************************************************************)
\* longest phases list a status report holds
MaxPhases == 2
\* largest max-minutes argument on the command line
MaxMinutes == 1
\* longest run of "a" the watched file holds, besides its named contents
MaxLen == 1
\* number of polls of the watched file that find a change
MaxTicks == 2

(***************************************************************************)
(* Program constants.                                                      *)
(***************************************************************************)
\* max_runtime_seconds = 90 * 60 when no max-minutes argument is given
DefaultMaxMinutes == 90
\* int(sys.argv[2]) * 60
SecondsPerMinute == 60
\* time.sleep(2) between iterations
SleepSeconds == 2
\* ClaudeParser(context_size=10)
ContextSize == 10

VARIABLES
    \* ---- phase runner: main()'s locals
    pc,                  \* position of main()
    move_on_complete,    \* True when the document was selected interactively
    max_runtime_seconds, \* wall-clock budget
    phases,              \* status['phases'] of the report held
    next_phase_idx,      \* status['nextPhaseIndex'] of the report held
    iteration,           \* loop counter
    now,                 \* time.time() - script_start
    \* ---- phase runner: the process's outcome and its effects
    exitCode,            \* exit code of the process, 0 until an exit sets it
    cause,               \* why the process ended
    moved,               \* the document was moved to docs/completed and committed
    \* ---- phase runner: the external assistant, as observed from outside
    ncalls,              \* number of calls made to the external assistant
    lastCall,            \* the most recent call made
    prevOp,              \* which call was made before that
    lastReport,          \* the most recent status report returned
    lastExec,            \* the outcome of the most recent execute_phase call
    \* ---- voice watcher: FileWatcher and its ClaudeParser
    last_content,        \* FileWatcher.last_content
    message_history,     \* ClaudeParser.message_history
    \* ---- voice watcher: what the latest poll did, as observed from outside
    ticks,               \* number of polls that found a change
    tickOld,             \* last_content when the latest poll began
    tickRead,            \* what the latest poll read from the file
    tickOutcome,         \* how the latest poll ended
    extractCall,         \* the latest direct call of extract_new_content
    parseArg,            \* the text the latest parse() call was given
    parseResult,         \* what the latest parse() call returned
    inserted,            \* every message given to add_message, in order
    loop,                \* watch(): "polling", "stopped" (interrupted) or "crashed"
    fed,                 \* number of texts the latest poll gave to the parser
    slept,               \* the latest poll ended in time.sleep(interval)
    cliRun,              \* the run of the CLI the latest parse() call made
    parsed,              \* the ParsedInput the latest parse() returned, <<>> for None
    promptContext,       \* {context_messages} of the prompt the latest parse() built
    dispatched,          \* the commands given to execute() since, in order
    events,              \* the OS calls and relays made since, in order
    machine,             \* the machine they were made on
    \* ---- clauded(), called on its own
    claudedPc,           \* "idle", "running" (the process is out), "stopping" (in
                         \* the finally clause), "returned", "raised"
    claudedArgs,         \* the schema asked for and whether a timer was given
    invocations,         \* number of calls of clauded() so far
    launches,            \* number of processes launched so far
    claudedRun,          \* how the process of the latest call ran
    claudedValue,        \* what the latest call returned, <<>> for None
    \* ---- the display Timer and the terminal it draws on
    timer_running,       \* Timer.running
    timer_thread,        \* Timer.thread: 0 for None, else the number of the thread
    threads,             \* where each display thread ever started is in _update_timer:
                         \* "test" (at the while test), "write" (in the body), "done"
    scroll_region,       \* the terminal's scroll region: "full" or "above_last_line"
    timerPc,             \* the main thread: "idle", or "joining" inside stop()
    timerLast,           \* the Timer method that returned last: "none", "start", "stop"
    lateWrite,           \* a display thread wrote between a stop() and the next start()
    joinTimedOut         \* the latest join() in stop() gave up on a live thread

runnerVars == <<pc, move_on_complete, max_runtime_seconds, phases, next_phase_idx,
                iteration, now, exitCode, cause, moved, ncalls, lastCall, prevOp,
                lastReport, lastExec>>

tickVars == <<ticks, tickOld, tickRead, tickOutcome, fed, slept>>

parserVars == <<message_history, inserted, parseArg, parseResult, cliRun, parsed,
                promptContext>>

effectVars == <<dispatched, events, machine>>

voiceVars == <<last_content, loop, extractCall, tickVars, parserVars, effectVars>>

callVars == <<claudedPc, claudedArgs, invocations, launches, claudedRun, claudedValue>>

timerVars == <<timer_running, timer_thread, threads, scroll_region, timerPc, timerLast,
               lateWrite, joinTimedOut>>

claudedVars == <<callVars, timerVars>>

vars == <<runnerVars, voiceVars, claudedVars>>

\* what the voice programs leave alone
otherVars == <<runnerVars, claudedVars>>

(***************************************************************************)
(* Python helpers.                                                         *)
(***************************************************************************)
\* dict.get(key, default) on a dict given as a set of <<key, value>> pairs
DictGet(d, key, default) ==
    IF \E p \in d : p[1] = key
    THEN (CHOOSE p \in d : p[1] = key)[2]
    ELSE default

\* seq[i] raises IndexError unless -len <= i < len
PyIndexOk(seq, i) == -Len(seq) <= i /\ i < Len(seq)

\* seq[i] for a Python index i (0-based, negative counts from the end)
PyIndex(seq, i) == IF i >= 0 THEN seq[i + 1] ELSE seq[Len(seq) + i + 1]

(***************************************************************************)
(* What the external assistant may return.                                 *)
(***************************************************************************)
\* the phases a report may list (STATUS_SCHEMA: description, status)
PhaseValues ==
    { [description |-> "Add tests", status |-> "completed"],
      [description |-> "Fix bug", status |-> "pending"] }

SeqsUpTo(S, n) == UNION { [1..k -> S] : k \in 0..n }

\* status reports conforming to STATUS_SCHEMA: nextPhaseIndex is any integer
Reports ==
    [ phases : SeqsUpTo(PhaseValues, MaxPhases),
      nextPhaseIndex : (-(MaxPhases + 1))..MaxPhases ]

\* execution results: {"success": true}, {"success": false}, {}
ExecResults == { {<<"success", TRUE>>}, {<<"success", FALSE>>}, {} }

\* how long a call to the external assistant takes, in seconds
CallDurations == {899, 2699}

NoCall == [op |-> "none", index |-> 0, description |-> "", at |-> 0]
NoReport == [phases |-> <<>>, nextPhaseIndex |-> 0]
NoExec == [called |-> FALSE, raised |-> FALSE, result |-> {}]

\* budgets the command line can set: the default, or max-minutes * 60
Budgets(interactive) ==
    IF interactive
    THEN {DefaultMaxMinutes * SecondsPerMinute}
    ELSE {DefaultMaxMinutes * SecondsPerMinute}
         \cup {m * SecondsPerMinute : m \in 0..MaxMinutes}

\* no reachable state of the runner has a clock beyond this
ClockCap == 2 * DefaultMaxMinutes * SecondsPerMinute


(***************************************************************************)
(* main(): the decisions it takes.                                         *)
(***************************************************************************)
\* elapsed >= max_runtime_seconds
TimeLimitReached_Never(elapsed, budget) == FALSE

TimeLimitReached_Strict(elapsed, budget) == elapsed > budget

TimeLimitReached(elapsed, budget) == elapsed >= budget

\* not result.get('success', False) is false
PhaseSucceeded_DefaultTrue(result) == DictGet(result, "success", TRUE)

PhaseSucceeded(result) == DictGet(result, "success", FALSE)

\* next_phase_idx == -1 and move_on_complete
ShouldMove_Always(idx, interactive) == idx = -1

ShouldMove(idx, interactive) == idx = -1 /\ interactive

\* phases = status['phases']; next_phase_idx = status['nextPhaseIndex']
AdoptStatus_KeepPhases(held, status) ==
    [phases |-> IF Len(status.phases) < Len(held) THEN held ELSE status.phases,
     next_phase_idx |-> status.nextPhaseIndex]

AdoptStatus(held, status) ==
    [phases |-> status.phases, next_phase_idx |-> status.nextPhaseIndex]

\* the arguments execute_phase is called with
ExecuteCall_FirstPhase(held, idx, t) ==
    [op |-> "execute", index |-> idx,
     description |-> held[1].description, at |-> t]

ExecuteCall(held, idx, t) ==
    [op |-> "execute", index |-> idx,
     description |-> PyIndex(held, idx).description, at |-> t]

\* the call get_phase_status makes
StatusCall(t) == [op |-> "status", index |-> 0, description |-> "", at |-> t]

\* sys.exit(code), or the interpreter ending on an uncaught exception
Exit(code, why) ==
    /\ pc' = "exited"
    /\ exitCode' = code
    /\ cause' = why

\* a call to the external assistant is made
Issue(call) ==
    /\ ncalls' = ncalls + 1
    /\ prevOp' = lastCall.op
    /\ lastCall' = call

(***************************************************************************)
(* main(): its steps.                                                      *)
(***************************************************************************)
RunnerInit ==
    /\ pc = "fetch_initial"
    /\ move_on_complete \in BOOLEAN
    /\ max_runtime_seconds \in Budgets(move_on_complete)
    /\ phases = <<>>
    /\ next_phase_idx = 0
    /\ iteration = 0
    /\ now = 0
    /\ exitCode = 0
    /\ cause = "running"
    /\ moved = FALSE
    /\ ncalls = 0
    /\ lastCall = NoCall
    /\ prevOp = "none"
    /\ lastReport = NoReport
    /\ lastExec = NoExec

\* the initial status query and what follows it up to the loop
FetchInitialStatus ==
    /\ UNCHANGED <<voiceVars, claudedVars>>
    /\ pc = "fetch_initial"
    /\ Issue(StatusCall(now))
    /\ \/ /\ Exit(1, "status_error")
          /\ UNCHANGED <<phases, next_phase_idx, lastReport, iteration>>
       \/ \E r \in Reports :
            /\ lastReport' = r
            /\ phases' = AdoptStatus(phases, r).phases
            /\ next_phase_idx' = AdoptStatus(phases, r).next_phase_idx
            /\ IF next_phase_idx' = -1
               THEN Exit(0, "already_complete") /\ UNCHANGED iteration
               ELSE IF ~PyIndexOk(phases', next_phase_idx')
               THEN Exit(1, "index_error") /\ UNCHANGED iteration
               ELSE /\ pc' = "loop_top"
                    /\ iteration' = 1
                    /\ UNCHANGED <<exitCode, cause>>
    /\ UNCHANGED <<move_on_complete, max_runtime_seconds, now, moved, lastExec>>

\* while next_phase_idx != -1: the time check and current_phase = phases[...]
LoopTop ==
    /\ UNCHANGED <<voiceVars, claudedVars>>
    /\ pc = "loop_top"
    /\ now <= ClockCap
    /\ IF next_phase_idx = -1
       THEN pc' = "summary" /\ UNCHANGED <<exitCode, cause>>
       ELSE IF TimeLimitReached(now, max_runtime_seconds)
       THEN pc' = "summary" /\ UNCHANGED <<exitCode, cause>>
       ELSE IF ~PyIndexOk(phases, next_phase_idx)
       THEN Exit(1, "index_error")
       ELSE pc' = "execute" /\ UNCHANGED <<exitCode, cause>>
    /\ UNCHANGED <<move_on_complete, max_runtime_seconds, phases, next_phase_idx,
                   iteration, now, moved, ncalls, lastCall, prevOp, lastReport,
                   lastExec>>

\* execute_phase(...) and the handling of its outcome
ExecutePhase ==
    /\ UNCHANGED <<voiceVars, claudedVars>>
    /\ pc = "execute"
    /\ Issue(ExecuteCall(phases, next_phase_idx, now))
    /\ \E d \in CallDurations : now' = now + d
    /\ \/ /\ lastExec' = [called |-> TRUE, raised |-> TRUE, result |-> {}]
          /\ Exit(1, "execute_error")
       \/ \E result \in ExecResults :
            /\ lastExec' = [called |-> TRUE, raised |-> FALSE, result |-> result]
            /\ IF PhaseSucceeded(result)
               THEN pc' = "refetch" /\ UNCHANGED <<exitCode, cause>>
               ELSE Exit(1, "phase_failure")
    /\ UNCHANGED <<move_on_complete, max_runtime_seconds, phases, next_phase_idx,
                   iteration, moved, lastReport>>

\* the status query after a successful phase, the sleep and iteration += 1
RefetchStatus ==
    /\ UNCHANGED <<voiceVars, claudedVars>>
    /\ pc = "refetch"
    /\ Issue(StatusCall(now))
    /\ \E d \in CallDurations :
         \/ /\ now' = now + d
            /\ Exit(1, "status_error")
            /\ UNCHANGED <<phases, next_phase_idx, lastReport, iteration>>
         \/ \E r \in Reports :
              /\ lastReport' = r
              /\ phases' = AdoptStatus(phases, r).phases
              /\ next_phase_idx' = AdoptStatus(phases, r).next_phase_idx
              /\ now' = now + d + (IF next_phase_idx' # -1 THEN SleepSeconds ELSE 0)
              /\ iteration' = iteration + 1
              /\ pc' = "loop_top"
              /\ UNCHANGED <<exitCode, cause>>
    /\ UNCHANGED <<move_on_complete, max_runtime_seconds, moved, lastExec>>

\* the final summary, the move of the document, and the end of main()
Summary ==
    /\ UNCHANGED <<voiceVars, claudedVars>>
    /\ pc = "summary"
    /\ moved' = ShouldMove(next_phase_idx, move_on_complete)
    /\ Exit(0, IF next_phase_idx = -1 THEN "all_complete" ELSE "time_limit")
    /\ UNCHANGED <<move_on_complete, max_runtime_seconds, phases, next_phase_idx,
                   iteration, now, ncalls, lastCall, prevOp, lastReport, lastExec>>

RunnerNext ==
    \/ FetchInitialStatus
    \/ LoopTop
    \/ ExecutePhase
    \/ RefetchStatus
    \/ Summary

(***************************************************************************)
(* Python str and list helpers.                                            *)
(***************************************************************************)
\* s.startswith(prefix)
StartsWith(s, prefix) ==
    /\ Len(prefix) <= Len(s)
    /\ SubSeq(s, 1, Len(prefix)) = prefix

\* s[n:] for n >= 0
SliceFrom(s, n) == SubSeq(s, n + 1, Len(s))

\* s[-n:] for n > 0
LastN(s, n) == IF Len(s) <= n THEN s ELSE SubSeq(s, Len(s) - n + 1, Len(s))

\* s[:n] for n >= 0
FirstN(s, n) == IF Len(s) <= n THEN s ELSE SubSeq(s, 1, n)

(***************************************************************************)
(* The watched file.                                                       *)
(***************************************************************************)
Hello == <<"h", "e", "l", "l", "o">>
HelloWorld == <<"h", "e", "l", "l", "o", " ", "w", "o", "r", "l", "d">>

\* contents the watched file may hold
Contents == SeqsUpTo({"a"}, MaxLen) \cup {<<"b">>, Hello, HelloWorld}

\* messages given to the parser when it is driven directly
Messages == {<<"a">>, <<"b">>}

\* most messages ever given to the parser when it is driven directly
MaxInserted == ContextSize + 2

(***************************************************************************)
(* The operating system, as the voice watcher uses it.                     *)
(* A path is the sequence of its components.  An OS call is one            *)
(* subprocess.run(..., check=True); when the process exits non-zero the    *)
(* call raises CalledProcessError.                                         *)
(***************************************************************************)
\* what expanduser() puts in place of a leading "~"
Home == <<"Users", "me">>

Desktop == Home \o <<"Desktop">>

\* files that may exist on the disk
Files ==
    { Desktop \o <<"doc-drafts", "post1", "blog.md">>,
      Desktop \o <<"notes.md">>,
      Desktop \o <<"todo.md">> }

\* the entries of a disk holding the files fs: the files and their directories
Entries(fs) == UNION { { SubSeq(f, 1, n) : n \in 1..Len(f) } : f \in fs }

\* path components holding a "*", and the names each of them matches
WildcardNames == {"*", "*.md"}

\* fnmatch of one name against one path component
NameMatches(pattern, name) ==
    CASE pattern = "*" -> TRUE
      [] pattern = "*.md" -> name \in {"blog.md", "notes.md", "todo.md"}
      [] OTHER -> name = pattern

\* "*" in str(path)
HasWildcard(path) == \E i \in 1..Len(path) : path[i] \in WildcardNames

\* Path(path).expanduser()
ExpandUser(path) ==
    IF Len(path) > 0 /\ path[1] = "~" THEN Home \o Tail(path) ELSE path

\* Path.parent and Path.name of a path of at least one component
Parent(path) == SubSeq(path, 1, Len(path) - 1)

Name(path) == path[Len(path)]

\* parent.glob(pattern) for a pattern of one component: the entries of the
\* directory parent, taken literally, whose name matches the pattern
Glob(parent, pattern, fs) ==
    { e \in Entries(fs) : Parent(e) = parent /\ NameMatches(pattern, Name(e)) }

\* Path.exists()
Exists(path, fs) == path \in Entries(fs)

\* the files a whole pattern stands for, a "*" matching in any component
PatternMatches(pattern, fs) ==
    { e \in Entries(fs) :
        /\ Len(e) = Len(pattern)
        /\ \A i \in 1..Len(e) : NameMatches(pattern[i], e[i]) }

\* key codes of the arrow keys, and the number of key presses of a scroll
KeyUp == 126
KeyDown == 125
DefaultAmount == 5

\* largest amount a scroll command carries
MaxAmount == 2

\* the calls made to the OS
OpenCall(app, path) ==
    [kind |-> "open", app |-> app, path |-> path, key |-> 0, modified |-> FALSE,
     text |-> <<>>, ok |-> TRUE]

KeyCall(key, modified) ==
    [kind |-> "key", app |-> "", path |-> <<>>, key |-> key, modified |-> modified,
     text |-> <<>>, ok |-> TRUE]

\* pbcopy with the text as its input, and the osascript that pastes the
\* clipboard into the terminal and presses return
CopyCall(text) ==
    [kind |-> "pbcopy", app |-> "", path |-> <<>>, key |-> 0, modified |-> FALSE,
     text |-> text, ok |-> TRUE]

PasteCall ==
    [kind |-> "paste", app |-> "", path |-> <<>>, key |-> 0, modified |-> FALSE,
     text |-> <<>>, ok |-> TRUE]

\* the calls planned are made in order; the call numbered failAt (counting
\* those made before, base of them) exits non-zero, which raises and so
\* ends the calls
Attempt(planned, base, failAt) ==
    LET hit == failAt > base /\ failAt <= base + Len(planned)
        n == IF hit THEN failAt - base ELSE Len(planned)
    IN  [calls |-> [i \in 1..n |-> [planned[i] EXCEPT !.ok = (base + i # failAt)]],
         raised |-> hit]

(***************************************************************************)
(* CommandExecutor.  A handler's outcome is what it returned, whether it   *)
(* raised instead, and the OS calls it made.  env is the machine the       *)
(* handler runs on: the files on its disk (fs), the entry a glob lists     *)
(* first (first), and the OS call that fails (failAt, 0 for none).         *)
(***************************************************************************)
Returned(result) == [result |-> result, raised |-> FALSE, calls |-> <<>>]

\* the handler made the calls of a; it returns True unless one raised
Called(a) == [result |-> ~a.raised, raised |-> a.raised, calls |-> a.calls]

\* _open_app; args.get("app") is None or "" when no app is given
OpenApp_NoCheck(args, env, base) ==
    Called(Attempt(<<OpenCall(DictGet(args, "app", ""), <<>>)>>, base, env.failAt))

OpenApp(args, env, base) ==
    LET app == DictGet(args, "app", "")
    IN  IF app = ""
        THEN Returned(FALSE)
        ELSE Called(Attempt(<<OpenCall(app, <<>>)>>, base, env.failAt))

\* matches[0] of a non-empty list of matches
FirstMatch(matches, env) ==
    IF env.first \in matches THEN env.first ELSE CHOOSE m \in matches : TRUE

\* _open_file: the path it settles on, <<>> when the glob matches nothing
ResolvePath(path, env) ==
    LET expanded_path == ExpandUser(path)
        matches == Glob(Parent(expanded_path), Name(expanded_path), env.fs)
    IN  IF HasWildcard(path)
        THEN IF matches # {} THEN FirstMatch(matches, env) ELSE <<>>
        ELSE expanded_path

\* _open_file; args.get("path") is None or "" when no path is given
OpenFile(args, env, base) ==
    LET path == DictGet(args, "path", <<>>)
        app == DictGet(args, "app", "")
        expanded_path == ResolvePath(path, env)
    IN  IF path = <<>>
        THEN Returned(FALSE)
        ELSE IF expanded_path = <<>>
        THEN Returned(FALSE)
        ELSE IF ~Exists(expanded_path, env.fs)
        THEN Returned(FALSE)
        ELSE Called(Attempt(<<OpenCall(app, expanded_path)>>, base, env.failAt))

\* args.get("amount", 5)
ScrollAmount_Fixed(args) == DefaultAmount

ScrollAmount(args) == DictGet(args, "amount", DefaultAmount)

\* _scroll
Scroll(args, env, base) ==
    LET direction == DictGet(args, "direction", "down")
        amount == ScrollAmount(args)
    IN  CASE direction = "top" ->
               Called(Attempt(<<KeyCall(KeyUp, TRUE)>>, base, env.failAt))
          [] direction = "bottom" ->
               Called(Attempt(<<KeyCall(KeyDown, TRUE)>>, base, env.failAt))
          [] direction = "up" ->
               Called(Attempt([i \in 1..amount |-> KeyCall(KeyUp, FALSE)], base,
                              env.failAt))
          [] direction = "down" ->
               Called(Attempt([i \in 1..amount |-> KeyCall(KeyDown, FALSE)], base,
                              env.failAt))
          [] OTHER -> Returned(FALSE)

\* handlers.get(command.type) and the call of the handler found
Handle(command, env, base) ==
    CASE command.type = "openApp" -> OpenApp(command.args, env, base)
      [] command.type = "openFile" -> OpenFile(command.args, env, base)
      [] command.type = "scroll" -> Scroll(command.args, env, base)
      [] OTHER -> Returned(FALSE)

\* execute: an exception of the handler is caught and reported as False
Execute_NoCatch(command, env, base) == Handle(command, env, base)

Execute(command, env, base) ==
    LET h == Handle(command, env, base)
    IN  [result |-> h.result /\ ~h.raised, raised |-> FALSE, calls |-> h.calls]

(***************************************************************************)
(* ClaudeParser.                                                           *)
(***************************************************************************)
\* add_message: append, then keep only the last context_size messages
AddMessage_KeepFirst(history, message) ==
    IF Len(Append(history, message)) > ContextSize
    THEN FirstN(Append(history, message), ContextSize)
    ELSE Append(history, message)

AddMessage(history, message) ==
    IF Len(Append(history, message)) > ContextSize
    THEN LastN(Append(history, message), ContextSize)
    ELSE Append(history, message)

\* what a run of the assistant's CLI prints: text that is JSON or not, and,
\* when it is, the array of steps it holds
NotJson == [json |-> FALSE, steps |-> <<>>]

JsonArray(steps) == [json |-> TRUE, steps |-> steps]

SystemStep == {<<"type", "system">>}

\* the step that carries structured_output: a dict, or <<>> for null
ResultStep(structured_output) ==
    {<<"type", "result">>, <<"structured_output", structured_output>>}

\* commands as the assistant writes them (PARSE_SCHEMA: type, args)
ScrollBottom == {<<"type", "scroll">>, <<"args", {<<"direction", "bottom">>}>>}
OpenNoSuchFile ==
    {<<"type", "openFile">>, <<"args", {<<"path", <<"no", "such", "file">>>>}>>}
ScrollNoArgs == {<<"type", "scroll">>}
EmptyCommand == {}

JsonCommands == {ScrollBottom, OpenNoSuchFile, ScrollNoArgs, EmptyCommand}

\* most commands in one payload
MaxCommands == 2

\* sessionPrompt: null, the empty string, or a prompt
GoPrompt == <<"g", "o">>
SessionPrompts == {<<>>, << <<>> >>, <<GoPrompt>>}

\* payloads: both keys of PARSE_SCHEMA, or only one of them, or none
Payloads ==
    { {<<"sessionPrompt", sp>>, <<"commands", cs>>} :
        sp \in SessionPrompts, cs \in SeqsUpTo(JsonCommands, MaxCommands) }
    \cup { {<<"sessionPrompt", sp>>} : sp \in SessionPrompts }
    \cup { {<<"commands", cs>>} : cs \in SeqsUpTo(JsonCommands, MaxCommands) }
    \cup { {} }

\* a payload that is the answer to "scroll to the bottom and go"
ScrollAndGo == {<<"sessionPrompt", <<GoPrompt>>>>, <<"commands", <<ScrollBottom>>>>}

\* a run of the CLI: it times out, or exits with a code having printed stdout
CliRun(timeout, returncode, stdout) ==
    [timeout |-> timeout, returncode |-> returncode, stdout |-> stdout]

\* runs of the CLI that _call_claude may see
CliRuns ==
    { CliRun(TRUE, 0, NotJson),
      CliRun(FALSE, 1, NotJson),
      CliRun(FALSE, 1, JsonArray(<<SystemStep, ResultStep(<<ScrollAndGo>>)>>)),
      CliRun(FALSE, 0, NotJson),
      CliRun(FALSE, 0, JsonArray(<<>>)),
      CliRun(FALSE, 0, JsonArray(<<SystemStep>>)),
      CliRun(FALSE, 0, JsonArray(<<ResultStep(<<ScrollAndGo>>), SystemStep>>)),
      CliRun(FALSE, 0, JsonArray(<<SystemStep, ResultStep(<<>>)>>)) }
    \cup { CliRun(FALSE, 0, JsonArray(<<SystemStep, ResultStep(<<p>>)>>)) : p \in Payloads }

\* json.loads(result.stdout) and output[-1]['structured_output'] raise unless
\* stdout is a JSON array whose last element has the field
HasStructuredOutput(stdout) ==
    /\ stdout.json
    /\ stdout.steps # <<>>
    /\ \E pair \in PyIndex(stdout.steps, -1) : pair[1] = "structured_output"

\* _call_claude: None (<<>>) on a timeout, a non-zero exit and any exception,
\* else the structured_output of the last step, which may itself be null
CallClaude_IgnoreExit(run) ==
    IF run.timeout \/ ~HasStructuredOutput(run.stdout)
    THEN <<>>
    ELSE DictGet(PyIndex(run.stdout.steps, -1), "structured_output", <<>>)

CallClaude(run) ==
    IF run.timeout \/ run.returncode # 0 \/ ~HasStructuredOutput(run.stdout)
    THEN <<>>
    ELSE DictGet(PyIndex(run.stdout.steps, -1), "structured_output", <<>>)

\* Command(type=cmd.get("type", ""), args=cmd.get("args", {}))
CommandOf(cmd) == [type |-> DictGet(cmd, "type", ""), args |-> DictGet(cmd, "args", {})]

\* ParsedInput.from_dict
FromDict(data) ==
    LET commands == DictGet(data, "commands", <<>>)
    IN  [session_prompt |-> DictGet(data, "sessionPrompt", <<>>),
         commands |-> [i \in 1..Len(commands) |-> CommandOf(commands[i])]]

\* what parse() returns for a run of the CLI: None (<<>>) or a ParsedInput;
\* "if result:" is false for None and for an empty dict
ParseReturn(run) ==
    LET result == CallClaude(run)
    IN  IF result # <<>> /\ result[1] # {}
        THEN <<FromDict(result[1])>>
        ELSE <<>>

\* "(No prior context)"
NoPriorContext ==
    <<"(", "N", "o", " ", "p", "r", "i", "o", "r", " ",
      "c", "o", "n", "t", "e", "x", "t", ")">>

\* [f"- {msg}" for msg in messages]
ContextLines(messages) ==
    [i \in 1..Len(messages) |-> <<"-", " ">> \o messages[i]]

\* "\n".join(lines)
RECURSIVE JoinLines(_)
JoinLines(lines) ==
    IF lines = <<>> THEN <<>>
    ELSE IF Len(lines) = 1 THEN lines[1]
    ELSE lines[1] \o <<"\n">> \o JoinLines(Tail(lines))

\* a prompt that lists the whole history, the latest message included
PromptContext_WholeHistory(history) ==
    JoinLines(ContextLines(history))

\* parse(), the context block: every message of the history but the last one,
\* or the placeholder when the history holds nothing else
PromptContext(history) ==
    IF Len(history) > 1
        THEN JoinLines(ContextLines(SubSeq(history, 1, Len(history) - 1)))
        ELSE NoPriorContext

\* parse(latest_message): the message joins the history, the assistant is asked
Parse(latest_message, run) ==
    /\ message_history' = AddMessage(message_history, latest_message)
    /\ promptContext' = PromptContext(AddMessage(message_history, latest_message))
    /\ inserted' = Append(inserted, latest_message)
    /\ parseArg' = latest_message
    /\ cliRun' = run
    /\ parsed' = ParseReturn(run)
    /\ parseResult' = IF ParseReturn(run) = <<>> THEN "None" ELSE "ParsedInput"

(***************************************************************************)
(* FileWatcher.                                                            *)
(***************************************************************************)
\* extract_new_content, with self.last_content given as old
ExtractNewContent_OffByOne(old, current_content) ==
    IF StartsWith(current_content, old)
    THEN SliceFrom(current_content, Len(old) + 1)
    ELSE current_content

ExtractNewContent(old, current_content) ==
    IF StartsWith(current_content, old)
    THEN SliceFrom(current_content, Len(old))
    ELSE current_content

\* content != self.last_content and content
ChangeDetected_AnyDifference(old, content) == content # old

ChangeDetected(old, content) == content # old /\ content # <<>>

\* self.last_content = content, the statement that follows process_input
StoreContent_OnlyWhenParsed(old, content, result) ==
    IF result = <<>> THEN old ELSE content

StoreContent(old, content, result) == content

\* send_to_terminal: the text is copied, then pasted into the terminal; a
\* CalledProcessError of either call is caught and logged
SendToTerminal(text, env, base) ==
    Attempt(<<CopyCall(text), PasteCall>>, base, env.failAt).calls

\* "for cmd in parsed.commands: self.executor.execute(cmd)": what was
\* dispatched, in order, each with its result and the number of OS calls made
\* before it; an exception of execute ends the loop
RECURSIVE DispatchAll(_, _, _)
DispatchAll(commands, env, base) ==
    IF commands = <<>>
    THEN [dispatched |-> <<>>, calls |-> <<>>, raised |-> FALSE]
    ELSE LET x == Execute(Head(commands), env, base)
             d == [command |-> Head(commands), result |-> x.result, at |-> base]
             rest == DispatchAll(Tail(commands), env, base + Len(x.calls))
         IN  IF x.raised
             THEN [dispatched |-> <<d>>, calls |-> x.calls, raised |-> TRUE]
             ELSE [dispatched |-> <<d>> \o rest.dispatched,
                   calls |-> x.calls \o rest.calls,
                   raised |-> rest.raised]

\* "if parsed.session_prompt:" is false for None and for the empty string
PromptGiven(session_prompt) == session_prompt # <<>> /\ session_prompt[1] # <<>>

\* what follows parse() in process_input, result being what parse() returned
AfterParse_RelayFirst(text, result, env) ==
    IF result = <<>>
    THEN [dispatched |-> <<>>, calls |-> SendToTerminal(text, env, 0), raised |-> FALSE]
    ELSE LET r == IF PromptGiven(result[1].session_prompt)
                  THEN SendToTerminal(result[1].session_prompt[1], env, 0)
                  ELSE <<>>
             d == DispatchAll(result[1].commands, env, Len(r))
         IN  [d EXCEPT !.calls = r \o d.calls]

AfterParse(text, result, env) ==
    IF result = <<>>
    THEN [dispatched |-> <<>>, calls |-> SendToTerminal(text, env, 0), raised |-> FALSE]
    ELSE LET d == DispatchAll(result[1].commands, env, 0)
         IN  IF ~d.raised /\ PromptGiven(result[1].session_prompt)
             THEN [d EXCEPT !.calls = d.calls \o SendToTerminal(result[1].session_prompt[1],
                                                                env, Len(d.calls))]
             ELSE d

\* process_input(text) while the CLI runs as run on the machine env
ProcessInput(text, run, env) ==
    LET after == AfterParse(text, ParseReturn(run), env)
    IN  /\ Parse(text, run)
        /\ dispatched' = after.dispatched
        /\ events' = after.calls
        /\ machine' = env

\* an exception leaves process_input
ProcessRaises(text, run, env) == AfterParse(text, ParseReturn(run), env).raised

\* a machine: the files on its disk, the entry a glob lists first, and the
\* number of the OS call that fails (0 when none does)
Machine(fs, first, failAt) == [fs |-> fs, first |-> first, failAt |-> failAt]

FailPoints == 0..(MaxCommands + 1)

\* machines a command is executed on when the executor is driven directly
ExecMachines == { Machine(fs, first, n) : fs \in SUBSET Files, first \in Files, n \in FailPoints }

\* machines process_input runs on when it is driven directly
ProcessMachines == { Machine({}, Desktop, n) : n \in FailPoints }

\* what the watcher meets while it polls: the CLI fails; or it answers with
\* a command that fails, a scroll and a prompt, and the first OS call made
\* after that (the scroll's) succeeds or fails
FailingRun == CliRun(FALSE, 1, NotJson)

AnsweringRun ==
    CliRun(FALSE, 0, JsonArray(<<SystemStep,
           ResultStep(<< {<<"sessionPrompt", <<GoPrompt>>>>,
                          <<"commands", <<OpenNoSuchFile, ScrollBottom>>>>} >>)>>))

WatcherCases ==
    { [run |-> FailingRun, env |-> Machine({}, Desktop, 0)],
      [run |-> AnsweringRun, env |-> Machine({}, Desktop, 0)],
      [run |-> AnsweringRun, env |-> Machine({}, Desktop, 1)] }

\* what a parser driven directly meets
ParserRuns == { FailingRun,
                CliRun(FALSE, 0, JsonArray(<<SystemStep, ResultStep(<<ScrollAndGo>>)>>)) }

\* a watcher that starts as if it had already seen "hello"
InitialContent_AlreadySeen == Hello

\* self.last_content = ""
InitialContent == <<>>

NoExtract == [called |-> FALSE, old |-> <<>>, current |-> <<>>, result |-> <<>>]

VoiceInit ==
    /\ last_content = InitialContent
    /\ loop = "polling"
    /\ message_history = <<>>
    /\ ticks = 0
    /\ tickOld = <<>>
    /\ tickRead = <<>>
    /\ tickOutcome = "none"
    /\ fed = 0
    /\ slept = FALSE
    /\ extractCall = NoExtract
    /\ parseArg = <<>>
    /\ parseResult = "none"
    /\ cliRun = CliRun(FALSE, 0, NotJson)
    /\ parsed = <<>>
    /\ promptContext = <<>>
    /\ inserted = <<>>
    /\ dispatched = <<>>
    /\ events = <<>>
    /\ machine = Machine({}, Desktop, 0)

\* one poll of watch() that finds the file missing: it logs and sleeps
PollMissing ==
    /\ UNCHANGED otherVars
    /\ loop = "polling"
    /\ ticks < MaxTicks
    /\ tickOutcome' = "missing"
    /\ fed' = 0
    /\ slept' = TRUE
    /\ extractCall' = NoExtract
    /\ UNCHANGED <<last_content, loop, ticks, tickOld, tickRead, parserVars, effectVars>>

\* one poll of watch() that gets None from read_file: "continue" takes it to
\* the next poll, past time.sleep(interval)
PollUnreadable ==
    /\ UNCHANGED otherVars
    /\ loop = "polling"
    /\ ticks < MaxTicks
    /\ tickOutcome' = "unreadable"
    /\ fed' = 0
    /\ slept' = FALSE
    /\ extractCall' = NoExtract
    /\ UNCHANGED <<last_content, loop, ticks, tickOld, tickRead, parserVars, effectVars>>

\* one poll of watch() that reads the file's content
PollContent ==
    /\ UNCHANGED otherVars
    /\ loop = "polling"
    /\ ticks < MaxTicks
    /\ extractCall' = NoExtract
    /\ \E content \in Contents, case \in WatcherCases :
         /\ tickOld' = last_content
         /\ tickRead' = content
         /\ IF ChangeDetected(last_content, content)
            THEN /\ ProcessInput(ExtractNewContent(last_content, content), case.run,
                                 case.env)
                 /\ fed' = Len(inserted') - Len(inserted)
                 /\ ticks' = ticks + 1
                 /\ IF ProcessRaises(ExtractNewContent(last_content, content), case.run,
                                     case.env)
                    THEN /\ loop' = "crashed"
                         /\ tickOutcome' = "raised"
                         /\ slept' = FALSE
                         /\ UNCHANGED last_content
                    ELSE /\ last_content' = StoreContent(last_content, content,
                                                         ParseReturn(case.run))
                         /\ tickOutcome' = "processed"
                         /\ slept' = TRUE
                         /\ UNCHANGED loop
            ELSE /\ tickOutcome' = "unchanged"
                 /\ fed' = 0
                 /\ slept' = TRUE
                 /\ UNCHANGED <<last_content, loop, ticks, parserVars, effectVars>>

\* the operator interrupts watch(): KeyboardInterrupt ends the loop
Interrupt ==
    /\ UNCHANGED otherVars
    /\ loop = "polling"
    /\ loop' = "stopped"
    /\ UNCHANGED <<last_content, extractCall, tickVars, parserVars, effectVars>>

\* extract_new_content called directly, on the watcher as it is while it polls
CallExtractNewContent ==
    /\ UNCHANGED otherVars
    /\ loop = "polling"
    /\ \E current \in Contents :
         extractCall' = [called |-> TRUE, old |-> last_content, current |-> current,
                         result |-> ExtractNewContent(last_content, current)]
    /\ UNCHANGED <<last_content, loop, tickVars, parserVars, effectVars>>

\* process_input called directly, on a watcher that has processed nothing yet
CallProcessInput ==
    /\ UNCHANGED otherVars
    /\ inserted = <<>>
    /\ \E text \in Messages, run \in CliRuns, env \in ProcessMachines :
         /\ ProcessInput(text, run, env)
         /\ loop' = IF ProcessRaises(text, run, env) THEN "crashed" ELSE loop
    /\ UNCHANGED <<last_content, extractCall, tickVars>>

\* add_message called directly
CallAddMessage ==
    /\ UNCHANGED otherVars
    /\ Len(inserted) < MaxInserted
    /\ \E m \in Messages :
         /\ message_history' = AddMessage(message_history, m)
         /\ inserted' = Append(inserted, m)
    /\ UNCHANGED <<last_content, loop, extractCall, tickVars, parseArg, parseResult,
                   cliRun, parsed, promptContext, effectVars>>

\* parse called directly
CallParse ==
    /\ UNCHANGED otherVars
    /\ Len(inserted) < MaxInserted
    /\ \E m \in Messages, run \in ParserRuns : Parse(m, run)
    /\ UNCHANGED <<last_content, loop, extractCall, tickVars, effectVars>>

\* commands the executor is given when it is driven directly
Directions == {"up", "down", "top", "bottom", "sideways"}

ScrollArgs ==
    { {} }
    \cup { {<<"direction", d>>} : d \in Directions }
    \cup { {<<"amount", n>>} : n \in 0..MaxAmount }
    \cup { {<<"direction", d>>, <<"amount", n>>} : d \in Directions, n \in 0..MaxAmount }

\* the path of PARSE_PROMPT's example, a path with "*" in its last component,
\* two paths without "*", and no path
PathArgs ==
    { <<"~", "Desktop", "doc-drafts", "*", "blog.md">>,
      <<"~", "Desktop", "*.md">>,
      <<"~", "Desktop", "notes.md">>,
      <<"no", "such", "file">>,
      <<>> }

OpenFileArgs ==
    { {} }
    \cup { {<<"path", p>>} : p \in PathArgs }
    \cup { {<<"path", p>>, <<"app", "Typora">>} : p \in PathArgs }

OpenAppArgs == { {}, {<<"app", "">>}, {<<"app", "Typora">>} }

Commands ==
    { [type |-> "scroll", args |-> a] : a \in ScrollArgs }
    \cup { [type |-> "openFile", args |-> a] : a \in OpenFileArgs }
    \cup { [type |-> "openApp", args |-> a] : a \in OpenAppArgs }
    \cup { [type |-> t, args |-> {<<"app", "Typora">>}] : t \in {"", "closeApp"} }

\* execute called directly, once: the executor keeps nothing between calls
CallExecute ==
    /\ UNCHANGED otherVars
    /\ dispatched = <<>>
    /\ \E command \in Commands, env \in ExecMachines :
         /\ dispatched' = <<[command |-> command, result |-> Execute(command, env, 0).result,
                             at |-> 0]>>
         /\ events' = Execute(command, env, 0).calls
         /\ machine' = env
         /\ loop' = IF Execute(command, env, 0).raised THEN "crashed" ELSE loop
    /\ UNCHANGED <<last_content, extractCall, tickVars, parserVars>>

(***************************************************************************)
(* The display Timer.  The main thread calls start() and stop(); every      *)
(* start() creates a thread that runs _update_timer.  The threads share     *)
(* Timer.running and the terminal.  Whether the terminal's size can be      *)
(* queried is up to the environment, call by call.                          *)
(***************************************************************************)
\* most start() calls in one behaviour of a Timer driven directly
MaxStarts == 2

\* Timer.__init__, on a terminal that scrolls as a whole
TimerInit ==
    /\ timer_running = FALSE
    /\ timer_thread = 0
    /\ threads = <<>>
    /\ scroll_region = "full"
    /\ timerPc = "idle"
    /\ timerLast = "none"
    /\ lateWrite = FALSE
    /\ joinTimedOut = FALSE

\* start(), the try block: the region is set to all lines but the last one,
\* unless the size query raises
RegionAfterStart(region, available) ==
    IF available THEN "above_last_line" ELSE region

\* stop(), the try block: the size is queried first and the region is reset
\* next; when the query raises the except clause only blanks the line
RegionAfterStop(region, available) ==
    IF available THEN "full" ELSE region

\* start()
Start(available) ==
    /\ timer_running' = TRUE
    /\ scroll_region' = RegionAfterStart(scroll_region, available)
    /\ threads' = Append(threads, "test")
    /\ timer_thread' = Len(threads) + 1
    /\ timerLast' = "start"
    /\ UNCHANGED <<timerPc, lateWrite, joinTimedOut>>

\* stop(), up to the join: the flag is cleared and the main thread waits
StopSignal ==
    /\ timer_running' = FALSE
    /\ timerPc' = "joining"
    /\ UNCHANGED <<timer_thread, threads, scroll_region, timerLast, lateWrite,
                   joinTimedOut>>

\* stop(), from the join on: join(timeout=1) returns when the thread has ended
\* or when the second is over, whichever is first; then the terminal is restored
StopReturn(available) ==
    /\ joinTimedOut' = (timer_thread # 0 /\ threads[timer_thread] # "done")
    /\ scroll_region' = RegionAfterStop(scroll_region, available)
    /\ timerPc' = "idle"
    /\ timerLast' = "stop"
    /\ UNCHANGED <<timer_running, timer_thread, threads, lateWrite>>

\* the main thread calls start(): at first, or after a stop()
TimerStart ==
    /\ UNCHANGED <<runnerVars, voiceVars, callVars>>
    /\ timerPc = "idle"
    /\ timerLast # "start"
    /\ Len(threads) < MaxStarts
    /\ \E available \in BOOLEAN : Start(available)

\* the main thread calls stop(), after a start() or without one
TimerStopBegin ==
    /\ UNCHANGED <<runnerVars, voiceVars, callVars>>
    /\ timerPc = "idle"
    /\ StopSignal

TimerStopEnd ==
    /\ UNCHANGED <<runnerVars, voiceVars, callVars>>
    /\ timerPc = "joining"
    /\ \E available \in BOOLEAN : StopReturn(available)

\* _update_timer, "while self.running": a display thread goes on or ends
DisplayTest ==
    /\ UNCHANGED <<runnerVars, voiceVars, callVars>>
    /\ \E i \in 1..Len(threads) :
         /\ threads[i] = "test"
         /\ threads' = [threads EXCEPT ![i] = IF timer_running THEN "write" ELSE "done"]
    /\ UNCHANGED <<timer_running, timer_thread, scroll_region, timerPc, timerLast,
                   lateWrite, joinTimedOut>>

\* _update_timer, the loop's body: a display thread writes the readout to the
\* terminal, sleeps and comes back to the test
DisplayWrite ==
    /\ UNCHANGED <<runnerVars, voiceVars, callVars>>
    /\ \E i \in 1..Len(threads) :
         /\ threads[i] = "write"
         /\ threads' = [threads EXCEPT ![i] = "test"]
    /\ lateWrite' = (lateWrite \/ timerLast = "stop")
    /\ UNCHANGED <<timer_running, timer_thread, scroll_region, timerPc, timerLast,
                   joinTimedOut>>

(***************************************************************************)
(* clauded(instructions, schema, timer), called on its own.                *)
(***************************************************************************)
\* most calls of clauded() in one behaviour
MaxInvocations == 2

\* runs of the CLI that clauded() may see: any exit code, any output
ClaudedOutputs ==
    { NotJson, JsonArray(<<>>), JsonArray(<<SystemStep>>),
      JsonArray(<<SystemStep, ResultStep(<<>>)>>) }
    \cup { JsonArray(<<SystemStep, ResultStep(<<r>>)>>) : r \in ExecResults }
    \cup { JsonArray(<<ResultStep(<<r>>), SystemStep>>) : r \in ExecResults }

ClaudedRuns == { CliRun(FALSE, code, out) : code \in 0..1, out \in ClaudedOutputs }

\* what clauded() does once the process has ended: it raises RuntimeError on
\* a non-zero exit, json.loads and output[-1]['structured_output'] raise on
\* what they cannot read, else the field of the last element is returned
ClaudedOutcome_AnyElement(run) ==
    IF run.returncode # 0
       \/ ~run.stdout.json
       \/ ~\E i \in 1..Len(run.stdout.steps) :
             \E pair \in run.stdout.steps[i] : pair[1] = "structured_output"
    THEN [raised |-> TRUE, value |-> <<>>]
    ELSE [raised |-> FALSE,
          value |-> DictGet(run.stdout.steps[
                       CHOOSE i \in 1..Len(run.stdout.steps) :
                          \E pair \in run.stdout.steps[i] : pair[1] = "structured_output"],
                       "structured_output", <<>>)]

ClaudedOutcome(run) ==
    IF run.returncode # 0 \/ ~HasStructuredOutput(run.stdout)
    THEN [raised |-> TRUE, value |-> <<>>]
    ELSE [raised |-> FALSE,
          value |-> DictGet(PyIndex(run.stdout.steps, -1), "structured_output", <<>>)]

\* a finally clause that is skipped when the try block raises
StopsTimer_OnReturnOnly(timer, raised) == timer /\ ~raised

\* "finally: if timer: timer.stop()"
StopsTimer(timer, raised) == timer

NoArgs == [schema |-> "none", timer |-> FALSE]

ClaudedInit ==
    /\ claudedPc = "idle"
    /\ claudedArgs = NoArgs
    /\ invocations = 0
    /\ launches = 0
    /\ claudedRun = CliRun(FALSE, 0, NotJson)
    /\ claudedValue = <<>>
    /\ TimerInit

\* clauded() is called: the timer given is started, subprocess.run launches
\* the process
ClaudedLaunch ==
    /\ UNCHANGED <<runnerVars, voiceVars>>
    /\ claudedPc \notin {"running", "stopping"}
    /\ invocations < MaxInvocations
    /\ \E schema \in {"status", "execution"}, timer \in BOOLEAN :
         /\ claudedArgs' = [schema |-> schema, timer |-> timer]
         /\ IF timer
            THEN \E available \in BOOLEAN : Start(available)
            ELSE UNCHANGED timerVars
    /\ claudedPc' = "running"
    /\ invocations' = invocations + 1
    /\ launches' = launches + 1
    /\ UNCHANGED <<claudedRun, claudedValue>>

\* the process ends: clauded() returns or raises at once when it has no timer
\* to stop, and enters stop() on either way out when it has one
ClaudedFinish ==
    /\ UNCHANGED <<runnerVars, voiceVars>>
    /\ claudedPc = "running"
    /\ \E run \in ClaudedRuns :
         /\ claudedRun' = run
         /\ IF StopsTimer(claudedArgs.timer, ClaudedOutcome(run).raised)
            THEN /\ StopSignal
                 /\ claudedPc' = "stopping"
                 /\ UNCHANGED claudedValue
            ELSE /\ claudedPc' = IF ClaudedOutcome(run).raised THEN "raised" ELSE "returned"
                 /\ claudedValue' = ClaudedOutcome(run).value
                 /\ UNCHANGED timerVars
    /\ UNCHANGED <<claudedArgs, invocations, launches>>

\* stop() returns inside the finally clause: clauded() returns or raises
ClaudedStopTimer ==
    /\ UNCHANGED <<runnerVars, voiceVars>>
    /\ claudedPc = "stopping"
    /\ \E available \in BOOLEAN : StopReturn(available)
    /\ claudedPc' = IF ClaudedOutcome(claudedRun).raised THEN "raised" ELSE "returned"
    /\ claudedValue' = ClaudedOutcome(claudedRun).value
    /\ UNCHANGED <<claudedArgs, invocations, launches, claudedRun>>

(***************************************************************************)
(* Specifications.                                                         *)
(***************************************************************************)
\* the runner's variables while the other program runs
RunnerIdle ==
    /\ RunnerInit
    /\ ~move_on_complete
    /\ max_runtime_seconds = DefaultMaxMinutes * SecondsPerMinute

Init == RunnerInit /\ VoiceInit /\ ClaudedInit

Next == RunnerNext

\* the phase runner
Spec == Init /\ [][Next]_vars

\* the phase runner when every call to the external assistant returns
FairSpec == Spec /\ WF_vars(Next)

WatcherNext ==
    \/ PollMissing
    \/ PollUnreadable
    \/ PollContent
    \/ Interrupt
    \/ CallExtractNewContent

\* the voice programs and clauded() start with the runner's variables at rest
VoiceStart == RunnerIdle /\ VoiceInit /\ ClaudedInit

\* the voice watcher polling its file
WatcherSpec == VoiceStart /\ [][WatcherNext]_vars

ParserNext ==
    \/ CallAddMessage
    \/ CallParse

\* a ClaudeParser driven by its two methods
ParserSpec == VoiceStart /\ [][ParserNext]_vars

\* FileWatcher.process_input driven directly
ProcessSpec == VoiceStart /\ [][CallProcessInput]_vars

\* CommandExecutor.execute driven directly
ExecutorSpec == VoiceStart /\ [][CallExecute]_vars

ClaudedNext ==
    \/ ClaudedLaunch
    \/ ClaudedFinish
    \/ ClaudedStopTimer
    \/ DisplayTest
    \/ DisplayWrite

\* clauded() called again and again
ClaudedSpec == VoiceStart /\ [][ClaudedNext]_vars

TimerNext ==
    \/ TimerStart
    \/ TimerStopBegin
    \/ TimerStopEnd
    \/ DisplayTest
    \/ DisplayWrite

\* a Timer driven by its two methods, with its display threads
TimerSpec == VoiceStart /\ [][TimerNext]_vars

(***************************************************************************)
(* Properties of the phase runner.                                         *)
(***************************************************************************)
CompleteCauses == {"already_complete", "all_complete"}

\* the most recent execute_phase call raised, or returned a result whose
\* 'success' is false or missing
ExecFailed ==
    /\ lastExec.called
    /\ (lastExec.raised \/ <<"success", TRUE>> \notin lastExec.result)

\* C1: when execute_phase raises or returns a result whose 'success' is false
\* or missing, the process is ended with a non-zero exit code, and no call to
\* the external assistant (execute_phase or get_phase_status) is made afterwards.
C1_FailureHalts ==
    /\ [](ExecFailed => (pc = "exited" /\ exitCode # 0))
    /\ [][ExecFailed => ncalls' = ncalls]_vars

\* a phase result without 'success', in the second iteration, ended the run
C1_Witness ==
    /\ lastExec.called /\ ~lastExec.raised /\ lastExec.result = {}
    /\ iteration = 2
    /\ pc = "exited" /\ exitCode = 1
    /\ lastCall.op = "execute"

\* C2: a phase is executed only when the nextPhaseIndex of the report that led
\* to it is a valid index, 0 <= i < len(phases); on any other value (too large,
\* or negative other than -1) no phase execution is issued.
C2_OnlyValidIndexExecuted ==
    lastCall.op = "execute" =>
        /\ 0 <= lastReport.nextPhaseIndex
        /\ lastReport.nextPhaseIndex < Len(lastReport.phases)

\* C3: no execute_phase call starts when elapsed >= max_runtime_seconds; when
\* the check at the top of an iteration finds elapsed >= max_runtime_seconds
\* the loop is left, and from then on no call to the external assistant is made.
C3_NoCallPastBudget ==
    /\ [](lastCall.op = "execute" => lastCall.at < max_runtime_seconds)
    /\ [][(pc = "loop_top" /\ next_phase_idx # -1 /\ now >= max_runtime_seconds)
            => (pc' = "summary" /\ ncalls' = ncalls)]_vars
    /\ [][pc = "summary" => (pc' = "exited" /\ ncalls' = ncalls)]_vars

\* the budget ran out after at least one phase, and the run ended on it
C3_Witness ==
    /\ pc = "exited" /\ cause = "time_limit"
    /\ iteration >= 2
    /\ now >= max_runtime_seconds
    /\ lastCall.op = "status"

\* C4: the process ends with code 0 exactly when the latest report has
\* nextPhaseIndex == -1 or the time budget was reached, and with code 1 when a
\* status fetch raises, a phase execution raises or a phase reports failure;
\* no other pairing of cause and exit code is reachable.
C4_ExitCodePairs ==
    pc = "exited" =>
        \/ exitCode = 0 /\ cause \in CompleteCauses \cup {"time_limit"}
        \/ exitCode = 1 /\ cause \in {"status_error", "execute_error", "phase_failure"}

\* C5: the calls alternate, status, execute, status, ...: every execute_phase
\* call directly follows a status query, a successful execute_phase is followed
\* by a status query, and the phases and next index held are those of the
\* latest report.
C5_RequeryAfterEachPhase ==
    /\ lastCall.op = "execute" => prevOp = "status"
    /\ lastCall.op = "status" => prevOp \in {"none", "execute"}
    /\ pc = "refetch" => (lastCall.op = "execute" /\ ~ExecFailed)
    /\ pc \in {"loop_top", "execute", "refetch", "summary"} =>
         /\ phases = lastReport.phases
         /\ next_phase_idx = lastReport.nextPhaseIndex

\* a re-query after the first phase returned a report, which is now held
C5_Witness ==
    /\ pc = "loop_top" /\ iteration = 2
    /\ lastCall.op = "status" /\ prevOp = "execute"
    /\ Len(phases) = 1
    /\ phases = lastReport.phases

\* C6: every execute_phase call has the index of the latest report's
\* nextPhaseIndex and the description of the phase at that index of the same
\* report, one call per iteration; once a report with nextPhaseIndex == -1 has
\* been received no further call is made and the process exits 0 as complete.
C6_TargetsReportedPhase ==
    /\ [](lastCall.op = "execute" =>
            /\ lastCall.index = lastReport.nextPhaseIndex
            /\ PyIndexOk(lastReport.phases, lastReport.nextPhaseIndex)
            /\ lastCall.description =
                 PyIndex(lastReport.phases, lastReport.nextPhaseIndex).description)
    /\ [](pc = "loop_top" => ncalls = 2 * iteration - 1)
    /\ [](lastReport.nextPhaseIndex = -1 =>
            /\ pc \in {"loop_top", "summary", "exited"}
            /\ pc = "exited" => (exitCode = 0 /\ cause \in CompleteCauses))
    /\ [][lastReport.nextPhaseIndex = -1 => ncalls' = ncalls]_vars

\* phase index 1 of two was executed, the re-query returned -1, exit code 0
C6_Witness ==
    /\ pc = "exited" /\ exitCode = 0 /\ cause = "all_complete"
    /\ ncalls = 3
    /\ prevOp = "execute"
    /\ lastReport.nextPhaseIndex = -1
    /\ Len(lastReport.phases) = 2

\* C7: when every call to the external assistant returns and time advances in
\* every iteration, main() eventually ends, whatever the assistant reports.
C7_Terminates == <>(pc = "exited")

\* three phases succeeded, no report said -1, and the budget ended the run
C7_Witness ==
    /\ pc = "exited" /\ cause = "time_limit"
    /\ iteration = 4
    /\ lastReport.nextPhaseIndex # -1
    /\ ~ExecFailed

\* C8 as stated: the document is moved if and only if the run was interactive
\* and ended with the latest report saying nextPhaseIndex == -1.
C8_MovedIffInteractiveComplete ==
    pc = "exited" =>
        (moved <=> (move_on_complete /\ lastReport.nextPhaseIndex = -1))

\* C8, amended: the document is moved if and only if the run was interactive
\* and a re-query after an executed phase returned nextPhaseIndex == -1; it is
\* not moved when the initial report already says -1.
C8_MovedIffInteractiveCompletedInRun ==
    /\ pc # "exited" => ~moved
    /\ pc = "exited" =>
         (moved <=> (/\ move_on_complete
                     /\ lastReport.nextPhaseIndex = -1
                     /\ prevOp = "execute"))

\* an interactive run completed its last phase and moved the document
C8_Witness ==
    /\ pc = "exited" /\ moved /\ move_on_complete
    /\ lastReport.nextPhaseIndex = -1
    /\ iteration >= 2


(***************************************************************************)
(* Properties of the voice watcher.                                        *)
(***************************************************************************)
\* old is the first Len(old) characters of new
IsPrefixOf(old, new) ==
    /\ Len(old) <= Len(new)
    /\ \A i \in 1..Len(old) : old[i] = new[i]

\* the latest poll found a change and gave the parser a text
TickFed == tickOutcome = "processed"

\* result is new[len(old):] when new starts with old, and new otherwise
IsDelta(result, old, new) ==
    IF IsPrefixOf(old, new)
    THEN /\ Len(result) = Len(new) - Len(old)
         /\ \A i \in 1..Len(result) : result[i] = new[Len(old) + i]
         /\ old \o result = new
    ELSE result = new

\* C9: extract_new_content returns new[len(old):] when new starts with old and
\* new in full otherwise, and watch() gives the parser that delta of what it
\* read against the last seen content.
C9_DeltaIsSuffixOrAll ==
    /\ extractCall.called =>
         IsDelta(extractCall.result, extractCall.old, extractCall.current)
    /\ TickFed =>
         /\ IsDelta(parseArg, tickOld, tickRead)
         /\ inserted[Len(inserted)] = parseArg

\* the file grew from "hello" to "hello world" and " world" was parsed
C9_Witness ==
    /\ TickFed
    /\ tickOld = Hello
    /\ tickRead = HelloWorld
    /\ parseArg = <<" ", "w", "o", "r", "l", "d">>

\* C10: the history holds at most context_size messages, and they are the last
\* min(n, context_size) of the n messages inserted, in insertion order.
C10_HistoryIsLastInserted ==
    /\ Len(message_history) <= ContextSize
    /\ Len(message_history) =
         (IF Len(inserted) < ContextSize THEN Len(inserted) ELSE ContextSize)
    /\ \A i \in 1..Len(message_history) :
         message_history[i] =
           inserted[Len(inserted) - Len(message_history) + i]

\* after the 11th insertion the 1st message is gone and the 2nd is the oldest
C10_Witness ==
    /\ Len(inserted) = ContextSize + 1
    /\ Len(message_history) = ContextSize
    /\ inserted[1] # inserted[2]
    /\ message_history[1] = inserted[2]
    /\ message_history[ContextSize] = inserted[ContextSize + 1]

(***************************************************************************)
(* Properties of process_input and of the parser's error policy.           *)
(***************************************************************************)
\* parse() has been called
ParseCalled == parseResult # "none"

\* the call of the CLI failed: it timed out, exited non-zero, printed what is
\* not JSON, or printed an array whose last element has no structured_output
CallFailed(run) ==
    \/ run.timeout
    \/ run.returncode # 0
    \/ ~HasStructuredOutput(run.stdout)

\* the payload the CLI returned, <<>> when it is null
PayloadOf(run) == DictGet(PyIndex(run.stdout.steps, -1), "structured_output", <<>>)

Keys(d) == { pair[1] : pair \in d }

\* the payload has the shape PARSE_SCHEMA requires
MatchesSchema(payload) ==
    /\ payload # <<>>
    /\ Keys(payload[1]) = {"sessionPrompt", "commands"}
    /\ \A i \in 1..Len(DictGet(payload[1], "commands", <<>>)) :
         Keys(DictGet(payload[1], "commands", <<>>)[i]) = {"type", "args"}

\* the relays to the terminal, in order: each begins with the copy of its text
Relayed == SelectSeq(events, LAMBDA e : e.kind = "pbcopy")

\* the OS calls that belong to relays
CallsOfRelays == SelectSeq(events, LAMBDA e : e.kind \in {"pbcopy", "paste"})

\* a copy that succeeds is followed by the paste, and nothing else is pasted
PastesFollowCopies ==
    \A j \in 1..Len(events) :
        /\ (events[j].kind = "pbcopy" /\ events[j].ok)
             => (j < Len(events) /\ events[j + 1].kind = "paste")
        /\ events[j].kind = "paste"
             => (j > 1 /\ events[j - 1].kind = "pbcopy" /\ events[j - 1].ok)

\* the text given to process_input was relayed once, and nothing else was done
RawTextRelayed ==
    /\ dispatched = <<>>
    /\ events = CallsOfRelays
    /\ Len(Relayed) = 1
    /\ Relayed[1].text = parseArg
    /\ PastesFollowCopies

\* the commands given to execute(), in order
DispatchedCommands == [i \in 1..Len(dispatched) |-> dispatched[i].command]

\* C11 as stated: parse() returns None for every failure of the call to the
\* assistant and for every payload that does not match the schema (one that
\* lacks sessionPrompt or commands, say), and the raw text is then relayed.
C11_NoneOnFailureOrMismatch ==
    ParseCalled =>
      ( (CallFailed(cliRun) \/ ~MatchesSchema(PayloadOf(cliRun)))
          => (parsed = <<>> /\ RawTextRelayed) )

\* C11: parse() never raises.  It returns None for every failure of the call
\* to the assistant (timeout, non-zero exit, output that is not JSON, no
\* structured_output in the last element) and for a payload that is null or
\* empty, and the raw text is then relayed verbatim, once.  A payload that only
\* lacks sessionPrompt or commands is not turned into None: parse() returns a
\* ParsedInput holding None for the prompt or no commands in its place, and
\* the watcher dispatches its commands as after any successful parse.
C11_NoneOnFailureDefaultsOnMissingKeys ==
    /\ loop # "crashed"
    /\ ParseCalled =>
         IF CallFailed(cliRun) \/ PayloadOf(cliRun) \in {<<>>, <<{}>>}
         THEN parsed = <<>> /\ RawTextRelayed
         ELSE /\ parsed # <<>>
              /\ "sessionPrompt" \notin Keys(PayloadOf(cliRun)[1])
                   => parsed[1].session_prompt = <<>>
              /\ "commands" \notin Keys(PayloadOf(cliRun)[1])
                   => parsed[1].commands = <<>>
              /\ DispatchedCommands = parsed[1].commands

\* the CLI printed an array without structured_output in its last element, and
\* the text was relayed as it was given
C11_Witness ==
    /\ ParseCalled
    /\ cliRun = CliRun(FALSE, 0, JsonArray(<<SystemStep>>))
    /\ parsed = <<>>
    /\ events = <<CopyCall(parseArg), PasteCall>>

\* every dispatch came before every relay
DispatchBeforeRelay ==
    \A i \in 1..Len(dispatched), j \in 1..Len(events) :
        events[j].kind \in {"pbcopy", "paste"} => dispatched[i].at < j

\* C12 as stated: after a successful parse every command is dispatched once,
\* in order, before any relay; then the session prompt is relayed once if it
\* is present and nothing is relayed if it is null.  After a failed parse no
\* command is dispatched and the raw text is relayed once.
C12_DispatchThenRelayIfNotNull ==
    ParseCalled =>
      IF parsed = <<>>
      THEN RawTextRelayed
      ELSE /\ DispatchedCommands = parsed[1].commands
           /\ DispatchBeforeRelay
           /\ PastesFollowCopies
           /\ IF parsed[1].session_prompt # <<>>
              THEN /\ Len(Relayed) = 1
                   /\ Relayed[1].text = parsed[1].session_prompt[1]
              ELSE Relayed = <<>>

\* C12: after a successful parse every command is dispatched once, in order,
\* before any relay; then the session prompt is relayed once if it is a
\* non-empty string, and nothing is relayed if it is null or the empty string.
\* After a failed parse no command is dispatched and the raw text is relayed
\* once.
C12_DispatchThenRelayIfNonEmpty ==
    ParseCalled =>
      IF parsed = <<>>
      THEN RawTextRelayed
      ELSE /\ DispatchedCommands = parsed[1].commands
           /\ DispatchBeforeRelay
           /\ PastesFollowCopies
           /\ IF parsed[1].session_prompt \notin {<<>>, << <<>> >>}
              THEN /\ Len(Relayed) = 1
                   /\ Relayed[1].text = parsed[1].session_prompt[1]
              ELSE Relayed = <<>>

\* two commands were dispatched in the order given, and then the prompt relayed
C12_Witness ==
    /\ parsed # <<>>
    /\ Len(parsed[1].commands) = 2
    /\ parsed[1].commands[1] # parsed[1].commands[2]
    /\ DispatchedCommands = parsed[1].commands
    /\ events = <<KeyCall(KeyDown, TRUE), CopyCall(GoPrompt), PasteCall>>

\* the OS calls made for the i-th command dispatched
CallsOf(i) ==
    SubSeq(events, dispatched[i].at + 1,
           IF i < Len(dispatched) THEN dispatched[i + 1].at
           ELSE Len(events) - Len(CallsOfRelays))

\* the i-th command dispatched failed: an OS call made for it exited non-zero,
\* or its handler made no call and gave up
CommandFailed(i) ==
    \/ \E k \in 1..Len(CallsOf(i)) : ~CallsOf(i)[k].ok
    \/ ~dispatched[i].result

\* C13: a command that fails affects only itself: execute() returns false for
\* it without raising, every later command of the same parsed input is still
\* dispatched, the session prompt is still relayed when there is one, and the
\* watcher goes on polling.
C13_FailureIsContained ==
    /\ loop # "crashed"
    /\ tickOutcome # "raised"
    /\ (tickOutcome = "processed" /\ parsed # <<>>) =>
         /\ \A i \in 1..Len(dispatched) : CommandFailed(i) => ~dispatched[i].result
         /\ DispatchedCommands = parsed[1].commands
         /\ PromptGiven(parsed[1].session_prompt)
              => (Len(Relayed) = 1 /\ Relayed[1].text = parsed[1].session_prompt[1])
         /\ slept

\* the first command found no file, the OS call of the second exited non-zero,
\* the prompt was relayed and the watcher is still polling
C13_Witness ==
    /\ tickOutcome = "processed"
    /\ loop = "polling"
    /\ Len(dispatched) = 2
    /\ ~dispatched[1].result
    /\ ~dispatched[2].result
    /\ Len(events) = 3
    /\ events[1].kind = "key"
    /\ ~events[1].ok
    /\ events[2] = CopyCall(GoPrompt)
    /\ events[3] = PasteCall

(***************************************************************************)
(* Properties of the watch loop.                                           *)
(***************************************************************************)
\* the latest poll read the file's content
TickRead == tickOutcome \in {"unchanged", "processed", "raised"}

\* C14 as stated: on every tick in which the content read differs from the
\* last-seen content the delta is given to the parser exactly once, and on a
\* tick in which the content is unreadable or equal nothing is given to it.
C14_FedOnEveryDifference ==
    /\ TickRead =>
         IF tickRead # tickOld
         THEN fed = 1 /\ parseArg = ExtractNewContent(tickOld, tickRead)
         ELSE fed = 0
    /\ tickOutcome \in {"missing", "unreadable"} => fed = 0

\* C14: on every tick in which the content read is not empty and differs from
\* the last-seen content the delta is given to the parser exactly once; on a
\* tick in which the content is unreadable, empty or equal to the last-seen
\* content nothing is given to it.
C14_FedOnEveryNonEmptyDifference ==
    /\ TickRead =>
         IF tickRead # tickOld /\ tickRead # <<>>
         THEN fed = 1 /\ parseArg = ExtractNewContent(tickOld, tickRead)
         ELSE fed = 0
    /\ tickOutcome \in {"missing", "unreadable"} => fed = 0

\* the file was cut from "hello world" to "hello" and "hello" was fed
C14_Witness ==
    /\ tickOutcome = "processed"
    /\ tickOld = HelloWorld
    /\ tickRead = Hello
    /\ fed = 1
    /\ parseArg = Hello

\* C15: after every tick that detected and processed a change, last_content
\* is the whole content read in that tick, whatever parse() returned and
\* whether or not a command failed; a tick that detects no change leaves
\* last_content as it was.
C15_LastContentFollowsProcessedTicks ==
    /\ [](tickOutcome = "processed" => last_content = tickRead)
    /\ [][tickOutcome' # "processed" => last_content' = last_content]_vars

\* parse() returned None, and the content read was stored all the same
C15_Witness ==
    /\ tickOutcome = "processed"
    /\ parsed = <<>>
    /\ tickOld = Hello
    /\ tickRead = HelloWorld
    /\ last_content = HelloWorld

\* C16: every poll ends in time.sleep(interval), so that one polling interval
\* passes between two consecutive reads, whether the file is missing, its
\* content unreadable, unchanged or changed; only an interrupt ends the loop.
C16_SleepsOnEveryPath ==
    /\ tickOutcome # "none" => slept
    /\ loop # "crashed"

(***************************************************************************)
(* Properties of the command executor.                                     *)
(***************************************************************************)
\* execute() has been called directly, with this command
Executed == Len(dispatched) = 1 /\ parseResult = "none"

TheCommand == dispatched[1].command

AllCallsOk == \A k \in 1..Len(events) : events[k].ok

\* C17: a scroll issues one key event with the command modifier for the
\* directions top and bottom, whatever the amount; amount plain key events for
\* up and down, the amount being 5 and the direction down when not given; and
\* no key event, with a false result, for any other direction.  (The count is
\* that of a scroll none of whose key events fails.)
C17_ScrollKeyEvents ==
    (Executed /\ TheCommand.type = "scroll" /\ AllCallsOk) =>
      LET direction == DictGet(TheCommand.args, "direction", "down")
          amount == DictGet(TheCommand.args, "amount", DefaultAmount)
      IN  CASE direction \in {"top", "bottom"} ->
                 /\ events = <<KeyCall(IF direction = "top" THEN KeyUp ELSE KeyDown, TRUE)>>
                 /\ dispatched[1].result
            [] direction \in {"up", "down"} ->
                 /\ Len(events) = amount
                 /\ \A k \in 1..Len(events) :
                      events[k] = KeyCall(IF direction = "up" THEN KeyUp ELSE KeyDown, FALSE)
                 /\ dispatched[1].result
            [] OTHER -> events = <<>> /\ ~dispatched[1].result

\* a scroll with an amount of 2 and no direction pressed the down key twice
C17_Witness ==
    /\ Executed
    /\ TheCommand = [type |-> "scroll", args |-> {<<"amount", 2>>}]
    /\ events = <<KeyCall(KeyDown, FALSE), KeyCall(KeyDown, FALSE)>>
    /\ dispatched[1].result

\* the command is not one the executor can carry out
InvalidCommand(command) ==
    \/ command.type \notin {"openApp", "openFile", "scroll"}
    \/ command.type = "openApp" /\ "app" \notin Keys(command.args)
    \/ command.type = "openFile" /\ "path" \notin Keys(command.args)

\* C18: execute() returns false and makes no OS call for a command whose type
\* is not openApp, openFile or scroll, for an openApp without args.app and for
\* an openFile without args.path; for an openApp that names an app it makes
\* exactly one OS call, the launch of that app.
C18_InvalidCommandsDoNothing ==
    Executed =>
      /\ InvalidCommand(TheCommand) => (~dispatched[1].result /\ events = <<>>)
      /\ (TheCommand.type = "openApp" /\ DictGet(TheCommand.args, "app", "") # "") =>
           /\ Len(events) = 1
           /\ events[1].kind = "open"
           /\ events[1].app = DictGet(TheCommand.args, "app", "")
           /\ events[1].path = <<>>

\* an openApp without an app was refused without any OS call
C18_Witness ==
    /\ Executed
    /\ TheCommand = [type |-> "openApp", args |-> {}]
    /\ ~dispatched[1].result
    /\ events = <<>>

\* C20: an openFile whose path holds a "*" opens one of the existing files
\* that match the pattern (with "~" expanded) and returns true when there is
\* such a file; when there is none, or when the path without "*" does not exist,
\* it returns false and makes no OS call.
C20_WildcardOpensAMatch ==
    (Executed /\ TheCommand.type = "openFile" /\ AllCallsOk
       /\ DictGet(TheCommand.args, "path", <<>>) # <<>>) =>
      LET path == DictGet(TheCommand.args, "path", <<>>)
          found == IF HasWildcard(path)
                   THEN PatternMatches(ExpandUser(path), machine.fs)
                   ELSE {ExpandUser(path)} \cap Entries(machine.fs)
      IN  IF found # {}
          THEN /\ dispatched[1].result
               /\ Len(events) = 1
               /\ events[1].kind = "open"
               /\ events[1].path \in found
          ELSE ~dispatched[1].result /\ events = <<>>

(***************************************************************************)
(* Properties of clauded().                                                *)
(***************************************************************************)
\* C19: every call of clauded() launches the process exactly once; it returns
\* the structured_output of the last element of the array printed when the
\* process exits with code 0 and that field is there; in every other case
\* (non-zero exit, output that cannot be parsed, no structured_output in the
\* last element) it raises, and launches nothing more.
C19_OneLaunchPerCall ==
    /\ launches = invocations
    /\ claudedPc \in {"returned", "raised"} =>
         IF /\ claudedRun.returncode = 0
            /\ claudedRun.stdout.json
            /\ claudedRun.stdout.steps # <<>>
            /\ "structured_output" \in Keys(PyIndex(claudedRun.stdout.steps, -1))
         THEN /\ claudedPc = "returned"
              /\ <<"structured_output", claudedValue>> \in PyIndex(claudedRun.stdout.steps, -1)
         ELSE claudedPc = "raised"

\* the second call raised on an array whose last element has no
\* structured_output, after two launches in all
C19_Witness ==
    /\ claudedPc = "raised"
    /\ invocations = 2
    /\ launches = 2
    /\ claudedRun = CliRun(FALSE, 0, JsonArray(<<ResultStep(<<{<<"success", TRUE>>}>>),
                                                  SystemStep>>))

(***************************************************************************)
(* Properties of the prompt parse() builds.                                *)
(***************************************************************************)
\* the messages given before a call that are within the window of its prompt
PrecedingMessages == LastN(inserted, ContextSize - 1)

\* what a step that is a parse() call does to the history and the prompt
ParseBuildsPrompt ==
    /\ message_history' # <<>>
    /\ message_history'[Len(message_history')] = parseArg'
    /\ inserted' = Append(inserted, parseArg')
    /\ SubSeq(message_history', 1, Len(message_history') - 1) = PrecedingMessages
    /\ Len(PrecedingMessages) <= ContextSize - 1
    /\ promptContext' = IF inserted = <<>> THEN NoPriorContext
                        ELSE JoinLines(ContextLines(PrecedingMessages))

FirstTick == ticks = 1 /\ tickOutcome \in {"processed", "raised"}

\* C25: the watcher starts with the empty string as its last-seen content, so
\* the first tick that reads a non-empty file takes the whole content as the
\* delta and gives it to the parser, and what comes back is dispatched or the
\* text is relayed as for appended text.
C25_FirstTickFeedsWholeFile ==
    /\ ticks = 0 => last_content = <<>>
    /\ FirstTick =>
         /\ tickOld = <<>>
         /\ tickRead # <<>>
         /\ fed = 1
         /\ parseArg = tickRead
         /\ inserted = <<tickRead>>
         /\ parsed = <<>> => RawTextRelayed
         /\ parsed # <<>> => DispatchedCommands = parsed[1].commands

\* the file held "hello world" when the watcher started: all of it was parsed
\* and its commands dispatched
C25_Witness ==
    /\ FirstTick
    /\ tickRead = HelloWorld
    /\ parseArg = HelloWorld
    /\ parsed # <<>>
    /\ dispatched # <<>>

(***************************************************************************)
(* Properties of the display Timer.                                        *)
(***************************************************************************)
\* the display threads that have not left their loop
LiveThreads == {i \in 1..Len(threads) : threads[i] # "done"}

\* C21 as stated: stop() does not raise and leaves running False, with or
\* without a start() before it and whether or not the terminal size can be
\* queried; and when stop() has returned the scroll region is the whole
\* screen again in every case, a failed size query included.
C21_StopRestoresScrolling ==
    timerLast = "stop" =>
        /\ ~timer_running
        /\ scroll_region = "full"

\* C22: when clauded() was given a timer, stop() has been called and running
\* is False by the time the call returns or raises, whichever way it ends; the
\* timer runs only while the call to the external process is in flight.
C22_TimerStoppedOnEveryExit ==
    /\ (claudedPc \in {"returned", "raised"} /\ claudedArgs.timer) =>
         (~timer_running /\ timerLast = "stop" /\ timerPc = "idle")
    /\ timer_running => (claudedPc = "running" /\ claudedArgs.timer)

\* a call with a timer whose process printed an array without
\* structured_output: it raised, and the timer was stopped
C22_Witness ==
    /\ claudedPc = "raised"
    /\ claudedArgs.timer
    /\ claudedRun.returncode = 0
    /\ claudedRun.stdout.json
    /\ threads # <<>>
    /\ timerLast = "stop"
    /\ ~timer_running

\* C23 as stated: over the start()/stop() cycles of the one Timer, at most one
\* display thread is in its update loop at any time, and no display thread
\* writes to the terminal between the return of stop() and the next start(),
\* in every interleaving, a join that times out included.
C23_AtMostOneDisplayThread ==
    /\ Cardinality(LiveThreads) <= 1
    /\ ~lateWrite

====
